---- MODULE Spec2Model ----
(***************************************************************************)
(* Transport bootstrap and channel adaptation of vscode-jsonrpc (node):    *)
(*   - IPCMessageReader / IPCMessageWriter over a process endpoint,        *)
(*   - SocketMessageWriter.dispose,                                        *)
(*   - createClient{Pipe,Socket}Transport (listen once, accept once,       *)
(*     close) and createServer{Pipe,Socket}Transport (dial).               *)
(* JavaScript runs every handler to completion, so each handler is one     *)
(* atomic action.  The operating system, the net module and the process    *)
(* endpoint are the environment: they choose bind results, which dial is   *)
(* served, whether a native send throws and what its completion callback   *)
(* reports.                                                                *)
(***************************************************************************)
EXTENDS Integers, Sequences, FiniteSets, TLC

VARIABLES
    \* ---- process channel (IPCMessageReader / IPCMessageWriter) ----
    hasSend,        \* typeof this.process.send === 'function'
    errorCount,     \* IPCMessageWriter.errorCount
    writes,         \* the write() calls made so far, in call order
    writerErrors,   \* error notifications fired by the writer, in order
    readerErrors,   \* error notifications fired by the reader, in order
    writerCloses,   \* number of close notifications fired by the writer
    readerCloses,   \* number of close notifications fired by the reader
    nativeErrors,   \* 'error' events emitted by the endpoint, in order
    nativeCloses,   \* number of 'close' events emitted by the endpoint
    consecFails,    \* history: failed sends since the last successful send
    lastOp,         \* history: the handler that ran last
    \* ---- pipe / socket transport ----
    kind,           \* "pipe" or "socket": which pair of entry points is used
    server,         \* the net.Server of the client-role bootstrap
    outer,          \* the promise returned by createClient*Transport
    connected,      \* the promise returned by onConnected()
    sockets,        \* the sockets dialled by createServer*Transport, in order;
                    \* afterAccept and live are history: whether a connection
                    \* had been accepted, and whether the listener was live,
                    \* when the dial was made
    accepted,       \* the dialled sockets served by the connection callback
    channels,       \* reader/writer pairs built by the connection callback
    cbLog,          \* history: the steps of the connection callback, in order
    ends,           \* the Socket objects and their SocketMessageWriter
    serverErrors,   \* history: the 'error' events of the server and who handled them
    returned,       \* the promises the calls of onConnected() returned, in order,
                    \* each with the state of `connected` at the call (history)
    \* ---- messages over an established socket connection ----
    sent,           \* per socket end: the messages written on its writer
    inFlight,       \* per socket end: the messages on their way to it
    received,       \* per socket end: the messages its reader delivered
    \* ---- IPCMessageReader.listen ----
    subs,           \* the 'message' listeners of the endpoint, in registration order
    emitted,        \* history: the 'message' events of the endpoint, in order
    \* ---- createMessageConnection / createProtocolConnection ----
    facArgs,        \* the input, the output and the logger the calls are made with
    facCalls,       \* the calls made and what each handed to the connection constructor
    \* ---- generateRandomPipeName ----
    platform,       \* process.platform
    tmpdir,         \* os.tmpdir()
    randomSeed,     \* the two byte values randomBytes alternates
    pipeName        \* the last result of generateRandomPipeName

ipcVars == <<hasSend, errorCount, writes, writerErrors, readerErrors,
             writerCloses, readerCloses, nativeErrors, nativeCloses,
             consecFails, lastOp>>
netVars == <<kind, server, outer, connected, sockets, accepted, channels,
             cbLog, ends, serverErrors, returned>>
wireVars == <<sent, inFlight, received>>
subVars == <<subs, emitted>>
facVars == <<facArgs, facCalls>>
nameVars == <<platform, tmpdir, randomSeed, pipeName>>
auxVars == <<wireVars, subVars, facVars, nameVars>>
vars == <<ipcVars, netVars, auxVars>>

\* ---------------------------------------------------------------- bounds
MaxWrites == 2      \* write() calls on the IPC writer
MaxEvents == 1      \* native 'error' events, and native 'close' events
MaxDials == 3       \* createServer*Transport calls
MaxDispose == 2     \* dispose() calls, over all SocketMessageWriters
MaxLiveErrors == 1  \* 'error' events of a server that is live
MaxCalls == 2       \* onConnected() calls
MaxListens == 2     \* listen() calls on the IPC reader
MaxInbound == 3     \* 'message' events of the process endpoint
MaxFactoryCalls == 2 \* createMessageConnection / createProtocolConnection calls
MaxRoundDials == 2  \* dials, when messages are exchanged
MaxSends == 2       \* messages written on socket writers
MaxRoundDispose == 1 \* dispose() calls, when messages are exchanged

\* ------------------------------------------------------------ value sets
Messages == {"m1", "m2"}
Errors == {"e1", "e2"}
NoError == "null"            \* the callback's error argument on success
Undefined == "undefined"     \* an argument that was not passed
Kinds == {"pipe", "socket"}
Callbacks == {"cb1", "cb2"}  \* the DataCallbacks passed to listen

\* Every Socket object there can be: the two ends of every dial.
Ends == {"dial", "accept"} \X (1..MaxDials)

\* ======================================================================
\* Process channel
\* ======================================================================

\* The writer's mutable state as the handlers see it.
Writer == [errorCount |-> errorCount, fired |-> writerErrors]

\* AbstractMessageWriter.fireError(error, message, count): the notification
\* carries its arguments verbatim.  w is history: the write it reports.
fireError(wr, error, msg, count, w) ==
    [wr EXCEPT !.fired = Append(@, [error |-> error, msg |-> msg,
                                    count |-> count, w |-> w])]

\* IPCMessageWriter.handleError
handleError(wr, error, msg, w) ==
    LET inc == [wr EXCEPT !.errorCount = @ + 1]
    IN  fireError(inc, error, msg, inc.errorCount, w)

\* The completion callback passed to process.send, without the reset.
sendCompletionNoReset(wr, error, msg, w) ==
    IF error # NoError
    THEN handleError([wr EXCEPT !.errorCount = @ + 1], error, msg, w)
    ELSE wr

\* The completion callback passed to process.send.
sendCompletion(wr, error, msg, w) ==
    IF error # NoError
    THEN handleError([wr EXCEPT !.errorCount = @ + 1], error, msg, w)
    ELSE [wr EXCEPT !.errorCount = 0]

\* write() whose catch branch swallows the exception.
writeResultSwallow(wr, msg, thrown, w) ==
    IF hasSend /\ thrown # NoError
    THEN [writer |-> handleError(wr, thrown, msg, w),
          call |-> [msg |-> msg, send |-> "threw", thrown |-> thrown,
                    promise |-> "resolved", reason |-> NoError,
                    cb |-> "none", cbError |-> NoError]]
    ELSE [writer |-> wr,
          call |-> [msg |-> msg, send |-> IF hasSend THEN "accepted" ELSE "absent",
                    thrown |-> NoError,
                    promise |-> "resolved", reason |-> NoError,
                    cb |-> IF hasSend THEN "pending" ELSE "none",
                    cbError |-> NoError]]

\* write() that counts a missing send operation as a failure.
writeResultAbsentFails(wr, msg, thrown, w) ==
    IF hasSend /\ thrown # NoError
    THEN [writer |-> handleError(wr, thrown, msg, w),
          call |-> [msg |-> msg, send |-> "threw", thrown |-> thrown,
                    promise |-> "rejected", reason |-> thrown,
                    cb |-> "none", cbError |-> NoError]]
    ELSE [writer |-> IF hasSend THEN wr ELSE handleError(wr, "e1", msg, w),
          call |-> [msg |-> msg, send |-> IF hasSend THEN "accepted" ELSE "absent",
                    thrown |-> NoError,
                    promise |-> "resolved", reason |-> NoError,
                    cb |-> IF hasSend THEN "pending" ELSE "none",
                    cbError |-> NoError]]

\* IPCMessageWriter.write(msg), the body of the try/catch.  thrown is what
\* the native send does: NoError when it returns, an error when it throws.
\* The result is the writer afterwards and the record of the call: what the
\* native send did, how the returned promise settled, and the state of the
\* completion callback ("none" when no callback was registered).
writeResult(wr, msg, thrown, w) ==
    IF hasSend /\ thrown # NoError
    THEN [writer |-> handleError(wr, thrown, msg, w),
          call |-> [msg |-> msg, send |-> "threw", thrown |-> thrown,
                    promise |-> "rejected", reason |-> thrown,
                    cb |-> "none", cbError |-> NoError]]
    ELSE [writer |-> wr,
          call |-> [msg |-> msg, send |-> IF hasSend THEN "accepted" ELSE "absent",
                    thrown |-> NoError,
                    promise |-> "resolved", reason |-> NoError,
                    cb |-> IF hasSend THEN "pending" ELSE "none",
                    cbError |-> NoError]]

\* IPCMessageWriter.write
write(msg) ==
    /\ Len(writes) < MaxWrites
    /\ \E thrown \in (IF hasSend THEN Errors \cup {NoError} ELSE {NoError}) :
         LET w == Len(writes) + 1
             r == writeResult(Writer, msg, thrown, w)
         IN  /\ errorCount' = r.writer.errorCount
             /\ writerErrors' = r.writer.fired
             /\ writes' = Append(writes, r.call)
             /\ consecFails' = IF r.call.send = "threw" THEN consecFails + 1
                               ELSE consecFails
             /\ lastOp' = [op |-> "write", w |-> w]
    /\ UNCHANGED <<hasSend, readerErrors, writerCloses, readerCloses,
                   nativeErrors, nativeCloses>>
    /\ UNCHANGED <<netVars, auxVars>>

\* The endpoint runs the completion callback of an accepted send; callbacks
\* of concurrent writes may arrive in any order.
sendCallback(w, error) ==
    /\ w \in 1..Len(writes)
    /\ writes[w].cb = "pending"
    /\ LET wr == sendCompletion(Writer, error, writes[w].msg, w)
       IN  /\ errorCount' = wr.errorCount
           /\ writerErrors' = wr.fired
    /\ writes' = [writes EXCEPT ![w].cb = IF error = NoError THEN "ok" ELSE "err",
                                ![w].cbError = error]
    /\ consecFails' = IF error = NoError THEN 0 ELSE consecFails + 1
    /\ lastOp' = [op |-> IF error = NoError THEN "sendOk" ELSE "sendErr", w |-> w]
    /\ UNCHANGED <<hasSend, readerErrors, writerCloses, readerCloses,
                   nativeErrors, nativeCloses>>
    /\ UNCHANGED <<netVars, auxVars>>

\* The writer's 'error' listener that treats a native error as a failed send.
writerOnErrorCounts(wr, error) ==
    handleError(wr, error, Undefined, 0)

\* IPCMessageWriter constructor: eventEmitter.on('error', ...)
writerOnError(wr, error) ==
    fireError(wr, error, Undefined, Undefined, 0)

\* IPCMessageReader constructor: eventEmitter.on('error', ...)
readerOnError(fired, error) ==
    Append(fired, error)

\* IPCMessageReader constructor: eventEmitter.on('close', () => this.fireClose())
readerOnClose(n) ==
    n + 1

\* IPCMessageWriter constructor: eventEmitter.on('close', () => this.fireClose)
\* The listener names the method and does not call it.
writerOnClose(n) ==
    n

\* The endpoint emits 'error': every listener runs, in registration order.
emitError(error) ==
    /\ Len(nativeErrors) < MaxEvents
    /\ nativeErrors' = Append(nativeErrors, error)
    /\ readerErrors' = readerOnError(readerErrors, error)
    /\ LET wr == writerOnError(Writer, error)
       IN  /\ errorCount' = wr.errorCount
           /\ writerErrors' = wr.fired
    /\ lastOp' = [op |-> "error", w |-> 0]
    /\ UNCHANGED <<hasSend, writes, writerCloses, readerCloses, nativeCloses,
                   consecFails>>
    /\ UNCHANGED <<netVars, auxVars>>

\* The endpoint emits 'close': every listener runs.
emitClose ==
    /\ nativeCloses < MaxEvents
    /\ nativeCloses' = nativeCloses + 1
    /\ readerCloses' = readerOnClose(readerCloses)
    /\ writerCloses' = writerOnClose(writerCloses)
    /\ lastOp' = [op |-> "close", w |-> 0]
    /\ UNCHANGED <<hasSend, errorCount, writes, writerErrors, readerErrors,
                   nativeErrors, consecFails>>
    /\ UNCHANGED <<netVars, auxVars>>

NextIPC ==
    \/ \E msg \in Messages : write(msg)
    \/ \E w \in 1..MaxWrites, error \in Errors \cup {NoError} : sendCallback(w, error)
    \/ \E error \in Errors : emitError(error)
    \/ emitClose

\* The reader and the writer right after their constructors ran; the
\* transport part is idle.
InitIPC ==
    /\ hasSend \in BOOLEAN
    /\ errorCount = 0
    /\ writes = <<>>
    /\ writerErrors = <<>>
    /\ readerErrors = <<>>
    /\ writerCloses = 0
    /\ readerCloses = 0
    /\ nativeErrors = <<>>
    /\ nativeCloses = 0
    /\ consecFails = 0
    /\ lastOp = [op |-> "new", w |-> 0]
    /\ kind = "pipe"
    /\ server = [state |-> "none", errorListeners |-> {}]
    /\ outer = [state |-> "none", reason |-> NoError]
    /\ connected = [state |-> "none", value |-> Undefined]
    /\ sockets = <<>>
    /\ accepted = <<>>
    /\ channels = <<>>
    /\ cbLog = <<>>
    /\ ends = <<>>
    /\ serverErrors = <<>>
    /\ returned = <<>>
    /\ sent = [e \in Ends |-> <<>>]
    /\ inFlight = [e \in Ends |-> <<>>]
    /\ received = [e \in Ends |-> <<>>]
    /\ subs = <<>>
    /\ emitted = <<>>
    /\ facArgs = [input |-> [listen |-> TRUE, read |-> FALSE],
                  output |-> [write |-> TRUE, end |-> FALSE],
                  logger |-> Undefined]
    /\ facCalls = <<>>
    /\ platform = "linux"
    /\ tmpdir = <<"/", "t", "m", "p">>
    /\ randomSeed = <<0, 0>>
    /\ pipeName = <<>>

\* The process channel alone.
SpecIPC == InitIPC /\ [][NextIPC]_vars

\* ======================================================================
\* Properties of the process channel (checked under SpecIPC)
\* ======================================================================

\* The error notifications the writer fired for write number w.
NotifsOf(w) == {i \in 1..Len(writerErrors) : writerErrors[i].w = w}

\* The last handler reported a failed send of write number lastOp.w.
LastFailedSend ==
    \/ lastOp.op = "sendErr"
    \/ lastOp.op = "write" /\ writes[lastOp.w].send = "threw"

\* C4: the error count is the number of consecutive failed sends: every
\* failed send, thrown or reported by the completion callback, raises it by
\* exactly one, so the notification of the k-th consecutive failure carries k.
C4_CountIsConsecutiveFailures ==
    /\ errorCount = consecFails
    /\ LastFailedSend => writerErrors[Len(writerErrors)].count = consecFails

\* C5: right after a completion callback reported success the error count
\* is zero, whatever failures came before and in whatever order the
\* callbacks of concurrent writes arrive.
C5_SuccessResetsCount ==
    lastOp.op = "sendOk" => errorCount = 0

\* C5 witness: the callback of the first write reports success after the
\* callback of the second write reported a failure.
C5_Witness ==
    /\ lastOp = [op |-> "sendOk", w |-> 1]
    /\ Len(writes) >= 2
    /\ writes[2].cb = "err"
    /\ Len(writerErrors) > 0

\* C6: a send that throws rejects the promise of write with the thrown
\* error and fires exactly one error notification; a send whose completion
\* callback reports an error leaves the promise resolved and fires exactly
\* one notification carrying the error, the message and the error count as
\* it is then; a send that is pending or succeeded fires none.
C6_TwoFailureModes ==
    /\ \A w \in 1..Len(writes) :
         LET c == writes[w]
         IN  /\ c.send = "threw" =>
                  /\ c.promise = "rejected"
                  /\ c.reason = c.thrown
                  /\ Cardinality(NotifsOf(w)) = 1
                  /\ \A i \in NotifsOf(w) :
                       writerErrors[i].error = c.thrown /\ writerErrors[i].msg = c.msg
             /\ c.send = "accepted" =>
                  /\ c.promise = "resolved"
                  /\ c.cb = "err" =>
                       /\ Cardinality(NotifsOf(w)) = 1
                       /\ \A i \in NotifsOf(w) :
                            writerErrors[i].error = c.cbError /\ writerErrors[i].msg = c.msg
                  /\ c.cb \in {"pending", "ok"} => NotifsOf(w) = {}
    /\ LastFailedSend =>
         /\ writerErrors[Len(writerErrors)].w = lastOp.w
         /\ writerErrors[Len(writerErrors)].count = errorCount

\* C6 witness: one write was rejected by a throwing send, another resolved
\* and had its failure reported by the completion callback.
C6_Witness ==
    /\ Len(writes) >= 2
    /\ writes[1].send = "threw"
    /\ writes[2].send = "accepted"
    /\ writes[2].cb = "err"

\* C7: when the endpoint has no send operation, write resolves, sends
\* nothing, fires no error notification and leaves the error count as it was.
C7_NoSendIsNoOp ==
    [][(~hasSend /\ Len(writes') = Len(writes) + 1) =>
          /\ errorCount' = errorCount
          /\ writerErrors' = writerErrors
          /\ writes'[Len(writes')].promise = "resolved"
          /\ writes'[Len(writes')].send = "absent"
          /\ writes'[Len(writes')].cb = "none"]_vars

\* C7 witness: write was called on an endpoint without a send operation.
C7_Witness ==
    /\ ~hasSend
    /\ lastOp.op = "write"
    /\ Len(writes) >= 1

\* C8: every native close event reaches the close notification of the
\* reader and the close notification of the writer.
C8_CloseForwarded ==
    /\ readerCloses = nativeCloses
    /\ writerCloses = nativeCloses

\* The errors of the notifications the writer fired for native error events.
RECURSIVE NativeNotifs(_)
NativeNotifs(fired) ==
    IF fired = <<>> THEN <<>>
    ELSE LET rest == NativeNotifs(Tail(fired))
         IN  IF Head(fired).w = 0 THEN <<Head(fired).error>> \o rest ELSE rest

\* C9: every native error event makes the reader and the writer each fire
\* one error notification carrying that same error, and does not change the
\* writer's error count.
C9_ErrorForwarded ==
    /\ [](/\ readerErrors = nativeErrors
          /\ NativeNotifs(writerErrors) = nativeErrors)
    /\ [][Len(nativeErrors') > Len(nativeErrors) => errorCount' = errorCount]_vars

\* C9 witness: a native error arrived while the error count was not zero.
C9_Witness ==
    /\ lastOp.op = "error"
    /\ errorCount > 0
    /\ Len(nativeErrors) >= 1

\* ======================================================================
\* Pipe and socket transport
\* ======================================================================

\* The two Socket objects of dial number s: the one createConnection
\* returned, and the one the net.Server hands to its connection listener.
DialEnd(s) == <<"dial", s>>
AcceptEnd(s) == <<"accept", s>>

\* A Socket with the SocketMessageWriter built on it.
NewEnd == [destroyed |-> FALSE, destroyCalls |-> 0, teardowns |-> 0,
           disposeCalls |-> 0]

\* connectResolve that resolves nothing.
connectResolveDropped(p, value) ==
    p

\* connectResolve: the resolve function of the promise `connected`.  A
\* promise that is settled ignores every later resolve.
connectResolve(p, value) ==
    IF p.state = "pending" THEN [state |-> "resolved", value |-> value] ELSE p

\* server.close() that leaves the listener open.
serverCloseMissing(srv) ==
    srv

\* server.close(): the listening handle is closed at once.
serverClose(srv) ==
    [srv EXCEPT !.state = "closed"]

\* The statements of the connection listener, in evaluation order: the
\* arguments of connectResolve are evaluated before it is called.
ListenerSteps == <<"close", "newReader", "newWriter", "resolve">>

\* One statement of the connection listener on socket e.  st holds what the
\* listener reads and writes; its log keeps, for every statement, the state
\* of the listening handle when the statement began.
listenerStep(st, step, e) ==
    LET done ==
          CASE step = "close" ->
                 [st EXCEPT !.server = serverClose(@)]
            [] step = "newReader" ->
                 [st EXCEPT !.reader = e]
            [] step = "newWriter" ->
                 [st EXCEPT !.writer = e,
                            !.channels = Append(@, [reader |-> st.reader, writer |-> e])]
            [] step = "resolve" ->
                 [st EXCEPT !.connected =
                      connectResolve(@, [reader |-> st.reader, writer |-> st.writer])]
    IN  [done EXCEPT !.log = Append(@, [step |-> step, listener |-> st.server.state])]

\* The connection listener run on socket e from state st.
RECURSIVE runListener(_, _, _)
runListener(st, steps, e) ==
    IF steps = <<>> THEN st
    ELSE runListener(listenerStep(st, Head(steps), e), Tail(steps), e)

\* createClient*Transport that registers no 'error' listener.
clientTransportNoErrorListener ==
    /\ server.state = "none"
    /\ server' = [state |-> "binding", errorListeners |-> {}]
    /\ outer' = [state |-> "pending", reason |-> NoError]
    /\ connected' = [state |-> "pending", value |-> Undefined]
    /\ UNCHANGED <<kind, sockets, accepted, channels, cbLog, ends, serverErrors, returned>>
    /\ UNCHANGED <<ipcVars, auxVars>>

\* createClientPipeTransport / createClientSocketTransport up to the call of
\* server.listen: both promises are pending, the error listener is `reject`.
clientTransport ==
    /\ server.state = "none"
    /\ server' = [state |-> "binding", errorListeners |-> {"reject"}]
    /\ outer' = [state |-> "pending", reason |-> NoError]
    /\ connected' = [state |-> "pending", value |-> Undefined]
    /\ UNCHANGED <<kind, sockets, accepted, channels, cbLog, ends, serverErrors, returned>>
    /\ UNCHANGED <<ipcVars, auxVars>>

createClientPipeTransport ==
    kind = "pipe" /\ clientTransport

createClientSocketTransport ==
    kind = "socket" /\ clientTransport

\* The callback of server.listen without server.removeListener.
listeningKeepsReject ==
    /\ server.state = "binding"
    /\ server' = [server EXCEPT !.state = "listening"]
    /\ outer' = IF outer.state = "pending"
                THEN [state |-> "resolved", reason |-> NoError] ELSE outer
    /\ UNCHANGED <<kind, connected, sockets, accepted, channels, cbLog, ends, serverErrors, returned>>
    /\ UNCHANGED <<ipcVars, auxVars>>

\* The callback of server.listen: the listener is live.
listening ==
    /\ server.state = "binding"
    /\ server' = [state |-> "listening",
                  errorListeners |-> server.errorListeners \ {"reject"}]
    /\ outer' = IF outer.state = "pending"
                THEN [state |-> "resolved", reason |-> NoError] ELSE outer
    /\ UNCHANGED <<kind, connected, sockets, accepted, channels, cbLog, ends, serverErrors, returned>>
    /\ UNCHANGED <<ipcVars, auxVars>>

\* reject wired to both promises of the bootstrap.
rejectBoth(st, error) ==
    [st EXCEPT !.outer = IF @.state = "pending"
                         THEN [state |-> "rejected", reason |-> error] ELSE @,
               !.connected = IF @.state = "pending"
                             THEN [state |-> "rejected", value |-> error] ELSE @]

\* reject: the reject function of the promise createClient*Transport
\* returns, registered by server.on('error', reject).  The reject function
\* of `connected` is dropped when that promise is made.
reject(st, error) ==
    [st EXCEPT !.outer = IF @.state = "pending"
                         THEN [state |-> "rejected", reason |-> error] ELSE @]

\* The server emits 'error': every listener registered for it runs.  live
\* tells whether the listener was live when the error was raised.
serverEmitsError(error, live) ==
    LET st0 == [outer |-> outer, connected |-> connected]
        st == IF "reject" \in server.errorListeners THEN reject(st0, error) ELSE st0
    IN  /\ outer' = st.outer
        /\ connected' = st.connected
        /\ serverErrors' = Append(serverErrors,
                                  [error |-> error, live |-> live,
                                   handlers |-> server.errorListeners])

\* The server emits 'error' because the bind failed: its listeners run.
bindError(error) ==
    /\ server.state = "binding"
    /\ server' = [server EXCEPT !.state = "failed"]
    /\ serverEmitsError(error, FALSE)
    /\ UNCHANGED <<kind, sockets, accepted, channels, cbLog, ends, returned>>
    /\ UNCHANGED <<ipcVars, auxVars>>

\* The number of errors the server raised while it was live.
LiveErrors == Len(SelectSeq(serverErrors, LAMBDA x : x.live))

\* The live server emits 'error' (a failed accept, for one): its listeners run.
listenerError(error) ==
    /\ server.state = "listening"
    /\ LiveErrors < MaxLiveErrors
    /\ serverEmitsError(error, TRUE)
    /\ UNCHANGED <<kind, server, sockets, accepted, channels, cbLog, ends, returned>>
    /\ UNCHANGED <<ipcVars, auxVars>>

\* onConnected() that makes a promise of its own on every call.
onConnectedFresh(n) ==
    n

\* The closure variable `connected`: the one promise made when
\* createClient*Transport is called.
ConnectedPromise == 0

\* The value the n-th call of onConnected() returns.
onConnectedReturns(n) ==
    ConnectedPromise

\* onConnected() on the bootstrap object the outer promise was resolved with.
onConnected ==
    /\ outer.state = "resolved"
    /\ Len(returned) < MaxCalls
    /\ returned' = Append(returned,
                          [promise |-> onConnectedReturns(Len(returned) + 1),
                           state |-> connected.state])
    /\ UNCHANGED <<kind, server, outer, connected, sockets, accepted, channels,
                   cbLog, ends, serverErrors>>
    /\ UNCHANGED <<ipcVars, auxVars>>

\* createServerPipeTransport / createServerSocketTransport: createConnection
\* starts to connect and the reader/writer pair is returned at once.
serverTransport ==
    /\ Len(sockets) < MaxDials
    /\ sockets' = Append(sockets, [state |-> "connecting",
                                   afterAccept |-> accepted # <<>>,
                                   live |-> server.state = "listening"])
    /\ ends' = ends @@ (DialEnd(Len(sockets) + 1) :> NewEnd)
    /\ UNCHANGED <<kind, server, outer, connected, accepted, channels, cbLog, serverErrors, returned>>
    /\ UNCHANGED <<ipcVars, auxVars>>

createServerPipeTransport ==
    kind = "pipe" /\ serverTransport

createServerSocketTransport ==
    kind = "socket" /\ serverTransport

\* The server serves dial s: it emits 'connection' and the connection
\* listener of createClient*Transport runs.  Only a listening server accepts.
connectionListener(s) ==
    /\ s \in 1..Len(sockets)
    /\ server.state = "listening"
    /\ sockets[s].state = "connecting"
    /\ LET st == runListener([server |-> server, connected |-> connected,
                              channels |-> channels, log |-> cbLog,
                              reader |-> Undefined, writer |-> Undefined],
                             ListenerSteps, AcceptEnd(s))
       IN  /\ server' = st.server
           /\ connected' = st.connected
           /\ channels' = st.channels
           /\ cbLog' = st.log
    /\ sockets' = [sockets EXCEPT ![s].state = "connected"]
    /\ accepted' = Append(accepted, s)
    /\ ends' = ends @@ (AcceptEnd(s) :> NewEnd)
    /\ UNCHANGED <<kind, outer, serverErrors, returned>>
    /\ UNCHANGED <<ipcVars, auxVars>>

\* A dial finds no listener at the address (none bound yet, bind failed, or
\* the listener was closed): the connect fails.
connectFailed(s) ==
    /\ s \in 1..Len(sockets)
    /\ sockets[s].state = "connecting"
    /\ server.state # "listening"
    /\ sockets' = [sockets EXCEPT ![s].state = "failed"]
    /\ UNCHANGED <<kind, server, outer, connected, accepted, channels, cbLog, ends, serverErrors, returned>>
    /\ UNCHANGED <<ipcVars, auxVars>>

\* dispose() that never reaches the socket.
disposedEndNoDestroy(end) ==
    [end EXCEPT !.disposeCalls = @ + 1]

\* SocketMessageWriter.dispose(): super.dispose(), then socket.destroy().
\* Socket.destroy() tears the socket down when it is not destroyed yet and
\* does nothing on a destroyed socket.
disposedEnd(end) ==
    [end EXCEPT !.disposeCalls = @ + 1,
                !.destroyCalls = @ + 1,
                !.destroyed = TRUE,
                !.teardowns = IF end.destroyed THEN @ ELSE @ + 1]

\* The number of dispose() calls made on the writers of the sockets in es.
RECURSIVE DisposeCalls(_)
DisposeCalls(es) ==
    IF es = {} THEN 0
    ELSE LET e == CHOOSE x \in es : TRUE
         IN  ends[e].disposeCalls + DisposeCalls(es \ {e})

\* SocketMessageWriter.dispose() on the writer of socket e.  Destroying
\* either end of a connection ends the connection.
dispose(e) ==
    /\ e \in DOMAIN ends
    /\ DisposeCalls(DOMAIN ends) < MaxDispose
    /\ ends' = [ends EXCEPT ![e] = disposedEnd(@)]
    /\ sockets' = [sockets EXCEPT ![e[2]].state =
                       IF @ \in {"connecting", "connected"} /\ ends'[e].destroyed
                       THEN "closed" ELSE @]
    /\ UNCHANGED <<kind, server, outer, connected, accepted, channels, cbLog, serverErrors, returned>>
    /\ UNCHANGED <<ipcVars, auxVars>>

NextNet ==
    \/ createClientPipeTransport
    \/ createClientSocketTransport
    \/ listening
    \/ \E error \in Errors : bindError(error)
    \/ \E error \in Errors : listenerError(error)
    \/ onConnected
    \/ createServerPipeTransport
    \/ createServerSocketTransport
    \/ \E s \in 1..MaxDials : connectionListener(s)
    \/ \E s \in 1..MaxDials : connectFailed(s)
    \/ \E e \in {"dial", "accept"} \X (1..MaxDials) : dispose(e)

\* Nothing was started on the transport; the process channel is idle.
InitNet ==
    /\ hasSend = TRUE
    /\ errorCount = 0
    /\ writes = <<>>
    /\ writerErrors = <<>>
    /\ readerErrors = <<>>
    /\ writerCloses = 0
    /\ readerCloses = 0
    /\ nativeErrors = <<>>
    /\ nativeCloses = 0
    /\ consecFails = 0
    /\ lastOp = [op |-> "new", w |-> 0]
    /\ server = [state |-> "none", errorListeners |-> {}]
    /\ outer = [state |-> "none", reason |-> NoError]
    /\ connected = [state |-> "none", value |-> Undefined]
    /\ sockets = <<>>
    /\ accepted = <<>>
    /\ channels = <<>>
    /\ cbLog = <<>>
    /\ ends = <<>>
    /\ serverErrors = <<>>
    /\ returned = <<>>
    /\ sent = [e \in Ends |-> <<>>]
    /\ inFlight = [e \in Ends |-> <<>>]
    /\ received = [e \in Ends |-> <<>>]
    /\ subs = <<>>
    /\ emitted = <<>>
    /\ facArgs = [input |-> [listen |-> TRUE, read |-> FALSE],
                  output |-> [write |-> TRUE, end |-> FALSE],
                  logger |-> Undefined]
    /\ facCalls = <<>>
    /\ platform = "linux"
    /\ tmpdir = <<"/", "t", "m", "p">>
    /\ randomSeed = <<0, 0>>
    /\ pipeName = <<>>
    /\ kind \in Kinds

\* The pipe or socket transport alone.
SpecNet == InitNet /\ [][NextNet]_vars

\* ======================================================================
\* Properties of the transport (checked under SpecNet)
\* ======================================================================

\* The reader/writer pair wrapping the socket the server handed out for dial s.
ChannelOf(s) == [reader |-> AcceptEnd(s), writer |-> AcceptEnd(s)]

\* C1: onConnected's promise is resolved exactly once, with the
\* reader/writer pair of the first accepted connection, and nothing changes
\* it afterwards.
C1_ResolvedOnceWithFirst ==
    /\ [](/\ connected.state = "resolved" <=> accepted # <<>>
          /\ accepted # <<>> => connected.value = ChannelOf(accepted[1]))
    /\ [][connected.state = "resolved" => connected' = connected]_vars

\* C1 witness: the promise is resolved with the pair of the first accepted
\* dial, and other dials were made before and after it.
C1_Witness ==
    /\ Len(sockets) = 3
    /\ accepted = <<2>>
    /\ connected = [state |-> "resolved", value |-> ChannelOf(2)]

\* C2: the connection listener closes the listener before it builds the
\* reader and the writer and before it resolves onConnected; whenever
\* onConnected is resolved the listener is closed; one bootstrap builds at
\* most one reader/writer pair.
C2_CloseFirstOneChannel ==
    /\ connected.state = "resolved" => server.state = "closed"
    /\ Len(channels) <= 1
    /\ \A i \in 1..Len(cbLog) :
         cbLog[i].step # "close" => cbLog[i].listener = "closed"

\* C2 witness: the listener ran while a second dial was waiting to be served.
C2_Witness ==
    /\ Len(cbLog) = Len(ListenerSteps)
    /\ Len(channels) = 1
    /\ connected.state = "resolved"
    /\ \E s \in 1..Len(sockets) : ~sockets[s].afterAccept /\ s \notin {accepted[1]}

\* C3: a dial made after the first connection was accepted never connects:
\* it finds the listener closed and fails.
C3_LaterDialFails ==
    \A s \in 1..Len(sockets) :
        sockets[s].afterAccept =>
            /\ sockets[s].state # "connected"
            /\ s \notin {accepted[i] : i \in 1..Len(accepted)}
            /\ server.state # "listening"

\* C3 witness: a dial made after the first accept has failed to connect.
C3_Witness ==
    \E s \in 1..Len(sockets) :
        /\ sockets[s].afterAccept
        /\ sockets[s].state = "failed"
        /\ accepted # <<>>

\* C10 as stated: however often dispose() is called on a SocketMessageWriter,
\* the destroy operation of its socket is invoked exactly once.
C10_DestroyInvokedOnce ==
    \A e \in DOMAIN ends :
        ends[e].disposeCalls > 0 => ends[e].destroyCalls = 1

\* C10 amended: every dispose() invokes the destroy operation of the socket,
\* and the socket is torn down exactly once, by the first dispose().
C10_TornDownOnce ==
    \A e \in DOMAIN ends :
        /\ ends[e].destroyCalls = ends[e].disposeCalls
        /\ ends[e].teardowns = (IF ends[e].disposeCalls > 0 THEN 1 ELSE 0)
        /\ ends[e].destroyed <=> ends[e].disposeCalls > 0

\* C10 witness: a writer was disposed twice.
C10_Witness ==
    \E e \in DOMAIN ends :
        /\ ends[e].disposeCalls = 2
        /\ ends[e].teardowns = 1

\* C11 as stated: when the bind fails the outer promise is rejected with
\* the bind error and the error handler of the bootstrap is removed from the
\* listener.
C11_BindFailureRemovesHandler ==
    server.state = "failed" =>
        /\ outer = [state |-> "rejected", reason |-> serverErrors[Len(serverErrors)].error]
        /\ "reject" \notin server.errorListeners

\* C11 amended: when the bind fails the outer promise is rejected with the
\* bind error and the error handler stays registered; the handler is removed
\* when the bind succeeds.
C11_BindFailureRejects ==
    /\ server.state = "failed" =>
         /\ outer = [state |-> "rejected", reason |-> serverErrors[Len(serverErrors)].error]
         /\ server.errorListeners = {"reject"}
    /\ server.state \in {"listening", "closed"} => server.errorListeners = {}

\* C11 witness: the bind failed and the outer promise is rejected.
C11_Witness ==
    /\ server.state = "failed"
    /\ outer.state = "rejected"
    /\ Len(serverErrors) = 1

\* The states of one bootstrap.
Connected == connected.state = "resolved"
BindFailed == outer.state = "rejected"
Phase ==
    IF outer.state = "none" THEN "Idle"
    ELSE IF BindFailed THEN "BindFailed"
    ELSE IF Connected THEN "Connected"
    ELSE "Listening"

\* The steps the state machine of a bootstrap allows.
PhaseStep ==
    LET step == <<Phase, Phase'>>
    IN  step \in {<<"Idle", "Idle">>, <<"Idle", "Listening">>,
                  <<"Listening", "Listening">>, <<"Listening", "Connected">>,
                  <<"Listening", "BindFailed">>, <<"Connected", "Connected">>,
                  <<"BindFailed", "BindFailed">>}

\* C12: a bootstrap goes Idle -> Listening -> (Connected | BindFailed);
\* Connected and BindFailed exclude each other; nothing leaves Connected and
\* the listener stays closed in it.
C12_StateMachine ==
    /\ [](/\ ~(Connected /\ BindFailed)
          /\ Connected => server.state = "closed"
          /\ BindFailed => server.state = "failed" /\ accepted = <<>>)
    /\ [][PhaseStep]_vars
    /\ [][Connected => /\ server' = server
                       /\ outer' = outer
                       /\ connected' = connected]_vars

\* C12 witness: the bootstrap is Connected after its live listener raised an
\* error, and a later dial was refused.
C12_Witness ==
    /\ Phase = "Connected"
    /\ LiveErrors >= 1
    /\ \E s \in 1..Len(sockets) : sockets[s].state = "failed"

\* C18: the promise of onConnected() is never rejected; without an accepted
\* connection it stays pending, also after a bind failure and after an error
\* of the live listener.
C18_NeverRejected ==
    /\ connected.state \in {"none", "pending", "resolved"}
    /\ (connected.state # "none" /\ accepted = <<>>) => connected.state = "pending"

\* C18 witness: the live listener raised an error, nothing was accepted and
\* a caller holds the pending promise.
C18_Witness ==
    /\ LiveErrors >= 1
    /\ accepted = <<>>
    /\ connected.state = "pending"
    /\ Len(returned) >= 1

\* C19: the outer promise is settled at most once and is resolved only once
\* the listener is live; onConnected resolves only after the outer promise
\* resolved; an error of the live listener does not reject the outer promise
\* and reaches no handler of the bootstrap.
C19_OuterPromise ==
    /\ [](/\ outer.state = "resolved" => server.state \in {"listening", "closed"}
          /\ connected.state = "resolved" => outer.state = "resolved"
          /\ \A i \in 1..Len(serverErrors) :
               serverErrors[i].live => serverErrors[i].handlers = {})
    /\ [][outer.state \in {"resolved", "rejected"} => outer' = outer]_vars
    /\ [][Len(serverErrors') > Len(serverErrors) /\ server.state = "listening"
            => outer' = outer]_vars

\* C19 witness: the listener raised an error while live and a connection
\* was accepted afterwards.
C19_Witness ==
    /\ LiveErrors >= 1
    /\ outer.state = "resolved"
    /\ connected.state = "resolved"

\* C20: every call of onConnected() returns the same promise, before and
\* after the first connection, and a call changes nothing of the listener
\* or of the bootstrap.
C20_SamePromise ==
    /\ [](\A i \in 1..Len(returned) : returned[i].promise = ConnectedPromise)
    /\ [][Len(returned') > Len(returned) =>
            /\ server' = server
            /\ outer' = outer
            /\ connected' = connected
            /\ sockets' = sockets
            /\ accepted' = accepted
            /\ channels' = channels]_vars

\* C20 witness: onConnected() was called before and after the first
\* connection was accepted.
C20_Witness ==
    /\ Len(returned) = 2
    /\ returned[1].state = "pending"
    /\ returned[2].state = "resolved"

\* ======================================================================
\* IPCMessageReader.listen
\* ======================================================================

\* listen() that subscribes for one message only.
listenOnce(callback) ==
    /\ Len(subs) < MaxListens
    /\ subs' = Append(subs, [callback |-> callback, how |-> "once", active |-> TRUE,
                             since |-> Len(emitted), got |-> <<>>])
    /\ UNCHANGED <<emitted, ipcVars, netVars, wireVars, facVars, nameVars>>

\* IPCMessageReader.listen(callback): process.on('message', callback).
\* since and got are history: how many messages the endpoint had emitted
\* when the listener was added, and the messages the callback was called with.
listen(callback) ==
    /\ Len(subs) < MaxListens
    /\ subs' = Append(subs, [callback |-> callback, how |-> "on", active |-> TRUE,
                             since |-> Len(emitted), got |-> <<>>])
    /\ UNCHANGED <<emitted, ipcVars, netVars, wireVars, facVars, nameVars>>

\* The endpoint emits 'message': every registered listener is called with
\* it, and a listener added with once is removed by its first call.
emitMessage(msg) ==
    /\ Len(emitted) < MaxInbound
    /\ emitted' = Append(emitted, msg)
    /\ subs' = [i \in 1..Len(subs) |->
                  IF subs[i].active
                  THEN [subs[i] EXCEPT !.got = Append(@, msg),
                                       !.active = (subs[i].how = "on")]
                  ELSE subs[i]]
    /\ UNCHANGED <<ipcVars, netVars, wireVars, facVars, nameVars>>

NextListen ==
    \/ \E callback \in Callbacks : listen(callback)
    \/ \E msg \in Messages : emitMessage(msg)
    \/ \E error \in Errors : emitError(error)
    \/ emitClose

\* The reader with its endpoint: listen, inbound messages, native events.
SpecListen == InitIPC /\ [][NextListen]_vars

\* C17: after listen(callback) every message the endpoint emits is passed to
\* callback, in emission order, and nothing the reader does removes the
\* listener.
C17_ListenForLife ==
    /\ [](\A i \in 1..Len(subs) :
            /\ subs[i].active
            /\ subs[i].got = SubSeq(emitted, subs[i].since + 1, Len(emitted)))
    /\ [][/\ Len(subs') >= Len(subs)
          /\ \A i \in 1..Len(subs) : subs'[i].callback = subs[i].callback]_vars

\* C17 witness: a callback subscribed after the first message has received
\* the two later messages, with a native error and a native close in between.
C17_Witness ==
    /\ Len(emitted) = 3
    /\ \E i \in 1..Len(subs) : subs[i].since = 1 /\ Len(subs[i].got) = 2
    /\ nativeCloses >= 1
    /\ Len(nativeErrors) >= 1

\* ======================================================================
\* createMessageConnection / createProtocolConnection
\* ======================================================================

\* An input or output is known by the operations it exposes.
Inputs == [listen : BOOLEAN, read : BOOLEAN]
Outputs == [write : BOOLEAN, end : BOOLEAN]
Loggers == {Undefined, "logger"}
Strategies == {"s1", "s2"}

\* The values of the options argument: undefined, a bare connection
\* strategy, or an options structure whose connectionStrategy is cs.
OptionValues ==
    {[tag |-> "undefined", cs |-> Undefined]}
      \cup [tag : {"strategy"}, cs : Strategies]
      \cup [tag : {"options"}, cs : Strategies \cup {Undefined}]

\* ConnectionStrategy.is(value): value is bare connection-strategy data.
ConnectionStrategyIs(value) ==
    value.tag = "strategy"

\* isMessageReader that only looks for listen.
isMessageReaderListenOnly(value) ==
    value.listen

\* isMessageReader
isMessageReader(value) ==
    value.listen /\ ~value.read

\* isMessageWriter
isMessageWriter(value) ==
    value.write /\ ~value.end

\* createMessageConnection without the normalization of options.
messageOptionsRaw(options) ==
    options

\* createMessageConnection: the normalization of options.
messageOptions(options) ==
    IF ConnectionStrategyIs(options)
    THEN [tag |-> "options", cs |-> options.cs]
    ELSE options

\* createProtocolConnection: the normalization of options.
protocolOptions(options) ==
    IF ConnectionStrategyIs(options)
    THEN [tag |-> "options", cs |-> options.cs]
    ELSE options

\* createMessageConnection: the arguments it hands to the connection
\* constructor.  A reader or writer is either the argument itself or a new
\* StreamMessageReader / StreamMessageWriter around it.
messageConnectionArgs(input, output, logger, options) ==
    [reader |-> IF isMessageReader(input)
                THEN [is |-> "input", of |-> input]
                ELSE [is |-> "StreamMessageReader", of |-> input],
     writer |-> IF isMessageWriter(output)
                THEN [is |-> "output", of |-> output]
                ELSE [is |-> "StreamMessageWriter", of |-> output],
     logger |-> IF logger = Undefined THEN "NullLogger" ELSE logger,
     options |-> messageOptions(options)]

\* createMessageConnection(input, output, logger, options)
createMessageConnection(options) ==
    /\ Len(facCalls) < MaxFactoryCalls
    /\ facCalls' = Append(facCalls,
           [entry |-> "message", options |-> options,
            passed |-> messageConnectionArgs(facArgs.input, facArgs.output,
                                             facArgs.logger, options)])
    /\ UNCHANGED <<facArgs, ipcVars, netVars, wireVars, subVars, nameVars>>

\* createProtocolConnection(input, output, logger, options): it calls
\* createMessageConnection with the normalized options.
createProtocolConnection(options) ==
    /\ Len(facCalls) < MaxFactoryCalls
    /\ facCalls' = Append(facCalls,
           [entry |-> "protocol", options |-> options,
            passed |-> messageConnectionArgs(facArgs.input, facArgs.output,
                                             facArgs.logger,
                                             protocolOptions(options))])
    /\ UNCHANGED <<facArgs, ipcVars, netVars, wireVars, subVars, nameVars>>

NextFactory ==
    \/ \E options \in OptionValues : createMessageConnection(options)
    \/ \E options \in OptionValues : createProtocolConnection(options)

\* Any input, output and logger; no call was made.
InitFactory ==
    /\ hasSend = TRUE
    /\ errorCount = 0
    /\ writes = <<>>
    /\ writerErrors = <<>>
    /\ readerErrors = <<>>
    /\ writerCloses = 0
    /\ readerCloses = 0
    /\ nativeErrors = <<>>
    /\ nativeCloses = 0
    /\ consecFails = 0
    /\ lastOp = [op |-> "new", w |-> 0]
    /\ kind = "pipe"
    /\ server = [state |-> "none", errorListeners |-> {}]
    /\ outer = [state |-> "none", reason |-> NoError]
    /\ connected = [state |-> "none", value |-> Undefined]
    /\ sockets = <<>>
    /\ accepted = <<>>
    /\ channels = <<>>
    /\ cbLog = <<>>
    /\ ends = <<>>
    /\ serverErrors = <<>>
    /\ returned = <<>>
    /\ sent = [e \in Ends |-> <<>>]
    /\ inFlight = [e \in Ends |-> <<>>]
    /\ received = [e \in Ends |-> <<>>]
    /\ subs = <<>>
    /\ emitted = <<>>
    /\ facCalls = <<>>
    /\ platform = "linux"
    /\ tmpdir = <<"/", "t", "m", "p">>
    /\ randomSeed = <<0, 0>>
    /\ pipeName = <<>>
    /\ facArgs \in [input : Inputs, output : Outputs, logger : Loggers]

\* The connection factory alone.
SpecFactory == InitFactory /\ [][NextFactory]_vars

\* C14: the input is handed on unchanged exactly when it exposes listen and
\* no read, and is wrapped in a StreamMessageReader otherwise; the output is
\* handed on unchanged exactly when it exposes write and no end, and is
\* wrapped in a StreamMessageWriter otherwise; each decision looks at its own
\* argument only.
C14_StructuralDiscrimination ==
    \A i \in 1..Len(facCalls) :
        LET p == facCalls[i].passed
        IN  /\ p.reader.of = facArgs.input
            /\ p.writer.of = facArgs.output
            /\ p.reader.is = "input" <=> (facArgs.input.listen /\ ~facArgs.input.read)
            /\ p.reader.is # "input" => p.reader.is = "StreamMessageReader"
            /\ p.writer.is = "output" <=> (facArgs.output.write /\ ~facArgs.output.end)
            /\ p.writer.is # "output" => p.writer.is = "StreamMessageWriter"

\* C14 witness: an input exposing listen and read was wrapped while the
\* output, exposing write only, was handed on.
C14_Witness ==
    /\ Len(facCalls) >= 1
    /\ facArgs.input = [listen |-> TRUE, read |-> TRUE]
    /\ facArgs.output = [write |-> TRUE, end |-> FALSE]
    /\ facCalls[1].passed.reader.is = "StreamMessageReader"
    /\ facCalls[1].passed.writer.is = "output"

\* C15: a bare strategy v and { connectionStrategy: v } reach the connection
\* constructor as the same options; an options structure and undefined pass
\* unchanged; normalizing in createProtocolConnection and again in
\* createMessageConnection gives what normalizing once gives.
C15_OptionsNormalized ==
    \A i, j \in 1..Len(facCalls) :
        LET a == facCalls[i]
            b == facCalls[j]
        IN  /\ (a.options.tag = "strategy" /\ b.options.tag = "options"
                  /\ a.options.cs = b.options.cs)
                 => a.passed.options = b.passed.options
            /\ a.options.tag \in {"options", "undefined"}
                 => a.passed.options = a.options
            /\ a.options = b.options => a.passed.options = b.passed.options
            /\ a.passed.options.tag # "strategy"

\* C15 witness: createProtocolConnection got a bare strategy and
\* createMessageConnection got the same strategy inside an options structure.
C15_Witness ==
    /\ Len(facCalls) = 2
    /\ facCalls[1].entry = "protocol"
    /\ facCalls[1].options = [tag |-> "strategy", cs |-> "s1"]
    /\ facCalls[2].entry = "message"
    /\ facCalls[2].options = [tag |-> "options", cs |-> "s1"]

\* ======================================================================
\* generateRandomPipeName
\* ======================================================================
\* A string is the sequence of its characters.

RandomByteCount == 21        \* randomBytes(21)
Platforms == {"win32", "linux", "darwin"}
TmpDirs == {<<"/", "t", "m", "p">>, <<"/", "v", "a", "r", "/", "t", "m", "p">>}
\* The byte values the random source is sampled at.
SampleBytes == {0, 9, 10, 15, 16, 160, 255}

HexDigits == <<"0", "1", "2", "3", "4", "5", "6", "7", "8", "9", "a", "b", "c", "d", "e", "f">>

\* Buffer.toString('hex') of one byte, without the leading zero.
hexOfByteNoPad(b) ==
    IF b < 16 THEN <<HexDigits[(b % 16) + 1]>>
    ELSE <<HexDigits[(b \div 16) + 1], HexDigits[(b % 16) + 1]>>

\* Buffer.toString('hex') of one byte: two digits, high nibble first.
hexOfByte(b) ==
    <<HexDigits[(b \div 16) + 1], HexDigits[(b % 16) + 1]>>

\* Buffer.toString('hex')
RECURSIVE toHex(_)
toHex(bytes) ==
    IF bytes = <<>> THEN <<>> ELSE hexOfByte(Head(bytes)) \o toHex(Tail(bytes))

\* randomBytes(n): n bytes of the random source, which here alternates the
\* two values of seed.
randomBytes(n, seed) ==
    [i \in 1..n |-> IF i % 2 = 1 THEN seed[1] ELSE seed[2]]

\* path.join(dir, name) for a directory and a file name without separators.
pathJoin(dir, name) ==
    IF dir[Len(dir)] = "/" THEN dir \o name ELSE dir \o <<"/">> \o name

\* generateRandomPipeName() on platform pf with os.tmpdir() = dir.
pipeNameOf(pf, dir, seed) ==
    LET randomSuffix == toHex(randomBytes(RandomByteCount, seed))
    IN  IF pf = "win32"
        THEN <<"\\", "\\", ".", "\\", "p", "i", "p", "e", "\\", "v", "s", "c", "o", "d", "e", "-", "j", "s", "o", "n", "r", "p", "c", "-">> \o randomSuffix \o <<"-", "s", "o", "c", "k">>
        ELSE pathJoin(dir, <<"v", "s", "c", "o", "d", "e", "-">> \o randomSuffix \o <<".", "s", "o", "c", "k">>)

\* generateRandomPipeName
generateRandomPipeName ==
    /\ \E seed \in SampleBytes \X SampleBytes :
         /\ randomSeed' = seed
         /\ pipeName' = pipeNameOf(platform, tmpdir, seed)
    /\ UNCHANGED <<platform, tmpdir, ipcVars, netVars, wireVars, subVars, facVars>>

NextName ==
    generateRandomPipeName

\* Any platform and temporary directory; no name was generated.
InitName ==
    /\ hasSend = TRUE
    /\ errorCount = 0
    /\ writes = <<>>
    /\ writerErrors = <<>>
    /\ readerErrors = <<>>
    /\ writerCloses = 0
    /\ readerCloses = 0
    /\ nativeErrors = <<>>
    /\ nativeCloses = 0
    /\ consecFails = 0
    /\ lastOp = [op |-> "new", w |-> 0]
    /\ kind = "pipe"
    /\ server = [state |-> "none", errorListeners |-> {}]
    /\ outer = [state |-> "none", reason |-> NoError]
    /\ connected = [state |-> "none", value |-> Undefined]
    /\ sockets = <<>>
    /\ accepted = <<>>
    /\ channels = <<>>
    /\ cbLog = <<>>
    /\ ends = <<>>
    /\ serverErrors = <<>>
    /\ returned = <<>>
    /\ sent = [e \in Ends |-> <<>>]
    /\ inFlight = [e \in Ends |-> <<>>]
    /\ received = [e \in Ends |-> <<>>]
    /\ subs = <<>>
    /\ emitted = <<>>
    /\ facArgs = [input |-> [listen |-> TRUE, read |-> FALSE],
                  output |-> [write |-> TRUE, end |-> FALSE],
                  logger |-> Undefined]
    /\ facCalls = <<>>
    /\ randomSeed = <<0, 0>>
    /\ pipeName = <<>>
    /\ platform \in Platforms
    /\ tmpdir \in TmpDirs

\* The pipe name generator alone.
SpecName == InitName /\ [][NextName]_vars

\* The parts of a generated name: its last five characters, the run of
\* hexadecimal digits before them, the directory part the platform
\* prescribes, and what lies between the directory part and the "-" before
\* the digits.
HexChars == {HexDigits[i] : i \in 1..Len(HexDigits)}
NameSuffix(name) == SubSeq(name, Len(name) - 4, Len(name))
NameStem(name) == SubSeq(name, 1, Len(name) - 5)
RECURSIVE HexRun(_)
HexRun(str) ==
    IF str = <<>> \/ str[Len(str)] \notin HexChars THEN <<>>
    ELSE HexRun(SubSeq(str, 1, Len(str) - 1)) \o <<str[Len(str)]>>
RandomPart(name) == HexRun(NameStem(name))
NameHead(name) == SubSeq(name, 1, Len(NameStem(name)) - Len(RandomPart(name)))
DirPart == IF platform = "win32" THEN <<"\\", "\\", ".", "\\", "p", "i", "p", "e", "\\">> ELSE tmpdir \o <<"/">>
AppPrefix(name) == SubSeq(name, Len(DirPart) + 1, Len(NameHead(name)) - 1)

\* A name has the documented layout around a random part of n digits.
HasShape(name, n) ==
    /\ NameSuffix(name) = (IF platform = "win32" THEN <<"-", "s", "o", "c", "k">> ELSE <<".", "s", "o", "c", "k">>)
    /\ Len(RandomPart(name)) = n
    /\ Len(NameHead(name)) > Len(DirPart)
    /\ SubSeq(name, 1, Len(DirPart)) = DirPart
    /\ NameHead(name)[Len(NameHead(name))] = "-"
    /\ AppPrefix(name) \in {<<"v", "s", "c", "o", "d", "e", "-", "j", "s", "o", "n", "r", "p", "c">>, <<"v", "s", "c", "o", "d", "e">>}

\* C16 as stated: every generated name has the documented layout with a
\* random part of exactly 32 hexadecimal digits.
C16_Shape32 ==
    pipeName # <<>> => HasShape(pipeName, 32)

\* C16 amended: every generated name has the documented layout with a
\* random part of exactly 42 hexadecimal digits, two for each of the 21
\* random bytes; the prefix is vscode-jsonrpc on win32 and vscode elsewhere.
C16_Shape42 ==
    pipeName # <<>> =>
        /\ HasShape(pipeName, 2 * RandomByteCount)
        /\ 2 * RandomByteCount = 42
        /\ AppPrefix(pipeName) = (IF platform = "win32" THEN <<"v", "s", "c", "o", "d", "e", "-", "j", "s", "o", "n", "r", "p", "c">> ELSE <<"v", "s", "c", "o", "d", "e">>)

\* C16 witness: a name was generated from bytes below 16 and above.
C16_Witness ==
    /\ pipeName # <<>>
    /\ randomSeed = <<9, 160>>
    /\ platform = "linux"

\* ======================================================================
\* Messages over the connection of a bootstrap and a dial
\* ======================================================================

\* The other end of the connection of socket e.
Peer(e) == <<IF e[1] = "dial" THEN "accept" ELSE "dial", e[2]>>

\* The number of messages written on the writers of the sockets in es.
RECURSIVE Sends(_)
Sends(es) ==
    IF es = {} THEN 0
    ELSE LET e == CHOOSE x \in es : TRUE
         IN  Len(sent[e]) + Sends(es \ {e})

\* SocketMessageWriter.write(msg) on the writer of socket e: the message is
\* handed to the socket, which buffers it until the connection is made.
socketWrite(e, msg) ==
    /\ e \in DOMAIN ends
    /\ ~ends[e].destroyed
    /\ sockets[e[2]].state \in {"connecting", "connected"}
    /\ Sends(Ends) < MaxSends
    /\ sent' = [sent EXCEPT ![e] = Append(@, msg)]
    /\ inFlight' = [inFlight EXCEPT ![Peer(e)] = Append(@, msg)]
    /\ UNCHANGED <<received, netVars, ipcVars, subVars, facVars, nameVars>>

\* The SocketMessageReader of socket e delivers the next message that
\* arrived over the established connection.
deliver(e) ==
    /\ e \in DOMAIN ends
    /\ sockets[e[2]].state = "connected"
    /\ inFlight[e] # <<>>
    /\ received' = [received EXCEPT ![e] = Append(@, Head(inFlight[e]))]
    /\ inFlight' = [inFlight EXCEPT ![e] = Tail(@)]
    /\ UNCHANGED <<sent, netVars, ipcVars, subVars, facVars, nameVars>>

NextRound ==
    \/ createClientPipeTransport
    \/ createClientSocketTransport
    \/ listening
    \/ \E error \in Errors : bindError(error)
    \/ Len(sockets) < MaxRoundDials /\ createServerPipeTransport
    \/ Len(sockets) < MaxRoundDials /\ createServerSocketTransport
    \/ \E s \in 1..MaxDials : connectionListener(s)
    \/ \E s \in 1..MaxDials : connectFailed(s)
    \/ \E e \in Ends : DisposeCalls(DOMAIN ends) < MaxRoundDispose /\ dispose(e)
    \/ \E e \in Ends, msg \in Messages : socketWrite(e, msg)
    \/ \E e \in Ends : deliver(e)

\* The transport with message traffic.  The event loop runs every callback
\* that is due: the listen callback, the connection listener while a dial
\* waits at the live listener, the failure of a dial that finds no listener,
\* and the delivery of data that arrived.
SpecRound ==
    /\ InitNet
    /\ [][NextRound]_vars
    /\ WF_vars(listening)
    /\ WF_vars(\E s \in 1..MaxDials : connectionListener(s))
    /\ WF_vars(\E s \in 1..MaxDials : connectFailed(s))
    /\ \A e \in Ends : WF_vars(deliver(e))

\* The state of the s-th dialled socket, once it was dialled.
StateOf(s) == IF s \in 1..Len(sockets) THEN sockets[s].state ELSE "none"

\* a is a prefix of b.
IsPrefix(a, b) == Len(a) <= Len(b) /\ a = SubSeq(b, 1, Len(a))

\* Another dial than s is the one the connection listener served.
OtherServed(s) == accepted # <<>> /\ accepted[1] # s

\* C13: a dial made while the bootstrap listens gets its connection, and
\* both ends then hold a channel on it, unless the listener served another
\* dial or the socket was disposed; every message written on the writer of
\* one end is eventually delivered, in order, by the reader of the other
\* end, in both directions, unless the dial failed or an end was disposed.
C13_RoundTripDelivery ==
    /\ [](\A s \in 1..Len(sockets) :
            sockets[s].state = "connected" =>
                /\ s = accepted[1]
                /\ connected = [state |-> "resolved", value |-> ChannelOf(s)]
                /\ {DialEnd(s), AcceptEnd(s)} \subseteq DOMAIN ends)
    /\ [](\A e \in Ends : IsPrefix(received[Peer(e)], sent[e]))
    /\ \A s \in 1..MaxDials :
         [](s \in 1..Len(sockets) /\ sockets[s].live
              => <>(\/ StateOf(s) = "connected"
                    \/ StateOf(s) = "closed"
                    \/ OtherServed(s)))
    /\ \A e \in Ends :
         [](Len(received[Peer(e)]) < Len(sent[e])
              => <>(\/ received[Peer(e)] = sent[e]
                    \/ StateOf(e[2]) \in {"failed", "closed"}))

\* C13 witness: over one connection a message went each way.
C13_Witness ==
    \E s \in 1..Len(sockets) :
        /\ sockets[s].state = "connected"
        /\ Len(received[AcceptEnd(s)]) = 1
        /\ Len(received[DialEnd(s)]) = 1

====
